---- MODULE Spec2Model ----
(***************************************************************************)
(* GitCommitsCheck of pkgcheck (src/pkgcheck/checks/git.py): the check     *)
(* that walks the unpushed commits of one package (a "pkgset"), rebuilds   *)
(* the package as of the parent of a removal commit, diffs the keywords,   *)
(* and runs the copyright / stable keywords / maintainer checks.           *)
(*                                                                         *)
(* Strings are sequences of one-character strings, so that x[0], x[1:],    *)
(* split('-'), strip('\n'), int() and the copyright regular expression are *)
(* computed on characters as the Python code computes them.                *)
(***************************************************************************)
EXTENDS Integers, Sequences, FiniteSets, TLC

VARIABLES
    pkgset,            \* feed's argument: the commit records of one package
    repo,              \* self.repo: version -> the live ebuild, if any
    maintainers,       \* pkg.maintainers (metadata.xml of the package)
    added_repo,        \* self.added_repo.match(unversioned_atom): dates
    valid_arches,      \* self.valid_arches
    today,             \* self.today.year
    archive,           \* what `git archive <commit>~1 <paths>` will produce
    pc,                \* position of the feed generator
    i,                 \* index of git_pkg in `for git_pkg in pkgset`
    findings,          \* the results yielded so far, in order
    repo_dir,          \* the TemporaryDirectory of removal_checks
    old_repo,          \* keywords of the ebuilds extracted into repo_dir
    polled,            \* what old_files.poll() returned
    dropped_stable,    \* dropped_stable_keywords
    dropped_unstable,  \* dropped_unstable_keywords
    exit_path          \* how the generator ended, or "running"

vars == <<pkgset, repo, maintainers, added_repo, valid_arches, today, archive,
          pc, i, findings, repo_dir, old_repo, polled, dropped_stable,
          dropped_unstable, exit_path>>

inputs == <<pkgset, repo, maintainers, added_repo, valid_arches, today, archive>>

(***************************************************************************)
(* Bound of the model: the longest pkgset.                                 *)
(***************************************************************************)
MaxBatch == 3

(***************************************************************************)
(* Characters and their code points (Python compares str by code point).   *)
(***************************************************************************)
Digits == <<"0", "1", "2", "3", "4", "5", "6", "7", "8", "9">>

IsDigit(c) == \E d \in 1..10 : Digits[d] = c

DigitValue(c) == (CHOOSE d \in 1..10 : Digits[d] = c) - 1

Ord(c) ==
    CASE c = "-" -> 45
      [] c = "a" -> 97
      [] c = "x" -> 120
      [] c = "~" -> 126
      [] OTHER   -> 0

\* s < t for two str
StrLess(s, t) ==
    \E k \in 1..Len(t) :
        /\ k - 1 <= Len(s)
        /\ \A j \in 1..(k - 1) : s[j] = t[j]
        /\ \/ Len(s) = k - 1
           \/ Ord(s[k]) < Ord(t[k])

Range(seq) == {seq[k] : k \in 1..Len(seq)}

\* x[1:]
Tail1(x) == SubSeq(x, 2, Len(x))

\* the sequences listing the set S once each
Listings(S) ==
    {f \in [1..Cardinality(S) -> S] : \A a, b \in 1..Cardinality(S) : a # b => f[a] # f[b]}

\* sorted(S) for a set of distinct str
sorted(S) ==
    CHOOSE f \in Listings(S) : \A a, b \in 1..Cardinality(S) : a < b => StrLess(f[a], f[b])

\* kw.lstrip('~-')
RECURSIVE lstrip(_)
lstrip(kw) ==
    IF kw # <<>> /\ kw[1] \in {"~", "-"} THEN lstrip(Tail1(kw)) ELSE kw

\* pkgcore's sort_keywords, as DroppedUnstableKeywords.__init__ calls it: a
\* stable sort on the keyword stripped of its prefix; keywords with equal
\* keys stay in the iteration order of the set, which is any order.
sort_keywords(S) ==
    {f \in Listings(S) :
        \A a, b \in 1..Cardinality(S) : a < b => ~StrLess(lstrip(f[b]), lstrip(f[a]))}

(***************************************************************************)
(* ebuild_copyright_regex (lines 17-19):                                   *)
(*     ^# Copyright (\d\d\d\d(-\d\d\d\d)?) .+                              *)
(* matched with re.match, so anchored at the start only; '.' is any        *)
(* character but a newline.                                                *)
(***************************************************************************)
CopyrightPrefix == <<"#", " ", "C", "o", "p", "y", "r", "i", "g", "h", "t", " ">>

FourDigits(line, k) ==
    /\ Len(line) >= k + 3
    /\ \A j \in k..(k + 3) : IsDigit(line[j])

\* ' .+' at position k: a space, then at least one character that is no newline
HolderAt(line, k) ==
    /\ Len(line) >= k + 1
    /\ line[k] = " "
    /\ line[k + 1] # "\n"

\* copyright.group(1), or <<>> when the expression does not match (None)
ebuild_copyright_regex(line) ==
    IF ~(/\ Len(line) >= 12
         /\ SubSeq(line, 1, 12) = CopyrightPrefix
         /\ FourDigits(line, 13))
    THEN <<>>
    ELSE IF /\ Len(line) >= 17
            /\ line[17] = "-"
            /\ FourDigits(line, 18)
            /\ HolderAt(line, 22)
         THEN SubSeq(line, 13, 21)
         ELSE IF HolderAt(line, 17) THEN SubSeq(line, 13, 16) ELSE <<>>

\* s.split('-')[-1]: what follows the last '-', or all of s
RECURSIVE SplitLast(_)
SplitLast(s) ==
    IF \E k \in 1..Len(s) : s[k] = "-"
    THEN SplitLast(SubSeq(s, (CHOOSE k \in 1..Len(s) : s[k] = "-") + 1, Len(s)))
    ELSE s

\* the first year of the group: split('-')[0]
CopyrightFirstYear(group) == SubSeq(group, 1, 4)

\* copyright.group(1).split('-')[-1] (line 171)
CopyrightYear(group) == SplitLast(group)

\* int(year) for a str of decimal digits
RECURSIVE int(_)
int(s) ==
    IF s = <<>> THEN 0
    ELSE 10 * int(SubSeq(s, 1, Len(s) - 1)) + DigitValue(s[Len(s)])

\* the comparison with <= in place of <
OutdatedOrCurrent(year, this_year) == int(year) <= this_year

\* int(year) < self.today.year (line 172)
Outdated(year, this_year) == int(year) < this_year

\* line.strip('\n')
RECURSIVE strip_newline(_)
strip_newline(line) ==
    IF line # <<>> /\ line[1] = "\n" THEN strip_newline(Tail1(line))
    ELSE IF line # <<>> /\ line[Len(line)] = "\n"
         THEN strip_newline(SubSeq(line, 1, Len(line) - 1))
         ELSE line

(***************************************************************************)
(* The keyword diff of removal_checks (lines 141-144).                     *)
(***************************************************************************)
\* the old keywords with nothing taken away
AllOldKeywords(old_keywords, new_keywords) == old_keywords

\* dropped_keywords = old_keywords - new_keywords
dropped_keywords(old_keywords, new_keywords) == old_keywords \ new_keywords

\* dropped_keywords & self.valid_arches
dropped_stable_keywords(dropped, arches) == dropped \cap arches

\* {x for x in dropped_keywords if x[0] == '~' and x[1:] in self.valid_arches}
dropped_unstable_keywords(dropped, arches) ==
    {x \in dropped : x[1] = "~" /\ Tail1(x) \in arches}

(***************************************************************************)
(* The checks on a newly added ebuild (lines 178, 184).                    *)
(***************************************************************************)
\* the filter on '~' alone
NotUnstableKeywords(keywords) == sorted({x \in keywords : x[1] # "~"})

\* sorted(x for x in pkg.keywords if x[0] not in '~-')
stable_keywords(keywords) == sorted({x \in keywords : x[1] \notin {"~", "-"}})

\* all(x.date == added_pkgs[0].date for x in added_pkgs)
newly_added(added_pkgs) ==
    \A k \in 1..Len(added_pkgs) : added_pkgs[k] = added_pkgs[1]

(***************************************************************************)
(* The inputs of one feed call.                                            *)
(***************************************************************************)
Versions == {1, 2}

Statuses == {"A", "M", "D"}

\* a record of the git commits repo; its commit is its place in the log
GitPkg(status, version, commit) ==
    [status |-> status, version |-> version, commit |-> commit]

Batches ==
    UNION {{[k \in 1..n |-> GitPkg(f[k][1], f[k][2], k)] :
                f \in [1..n -> Statuses \X Versions]} : n \in 1..MaxBatch}

\* an ebuild of the live repo: its text (a sequence of lines) and KEYWORDS
Ebuild(exists, text, keywords) ==
    [exists |-> exists, text |-> text, keywords |-> keywords]

NoEbuild == Ebuild(FALSE, <<>>, {})

\* an ebuild with no text declares no KEYWORDS
Ebuilds(lines, keyword_sets) ==
    {NoEbuild, Ebuild(TRUE, <<>>, {})}
        \cup {Ebuild(TRUE, <<l>>, k) : l \in lines, k \in keyword_sets}

\* the run of `git archive`: the tar stream on stdout, the keywords of the
\* ebuilds in it, and the exit status.  An empty stream and a stream cut
\* inside a member make tarfile raise ReadError; a stream cut between two
\* members ends the extraction silently.
Archive(stream, keywords, returncode) ==
    [stream |-> stream, keywords |-> keywords, returncode |-> returncode]

Archives(keyword_sets) ==
    {Archive("complete", k, 0) : k \in keyword_sets}
        \cup {Archive("cut_between_members", k, 128) : k \in keyword_sets}
        \cup {Archive("cut_in_member", k, 128) : k \in keyword_sets}
        \cup {Archive("empty", {}, 128)}

Started ==
    /\ pc = "removal"
    /\ i = 1
    /\ findings = <<>>
    /\ repo_dir = "none"
    /\ old_repo = {}
    /\ polled = <<>>
    /\ dropped_stable = {}
    /\ dropped_unstable = {}
    /\ exit_path = "running"

InitWith(batches, ebuilds, maintainer_sets, added, arches, years, archives) ==
    /\ pkgset \in batches
    /\ repo \in [Versions -> ebuilds]
    /\ maintainers \in maintainer_sets
    /\ added_repo \in added
    /\ valid_arches \in arches
    /\ today \in years
    /\ archive \in archives
    /\ Started

(***************************************************************************)
(* removal_checks (lines 104-149), run by feed's `yield from` (line 154).  *)
(***************************************************************************)
\* the list without the test on the status
NotFiltered == pkgset

\* removed = [pkg for pkg in pkgset if pkg.status == 'D']
removed == SelectSeq(pkgset, LAMBDA p : p.status = "D")

\* removed[-1], as an index of pkgset
LastRemovedIndex ==
    CHOOSE k \in 1..Len(pkgset) :
        pkgset[k].status = "D" /\ \A j \in (k + 1)..Len(pkgset) : pkgset[j].status # "D"

\* removed[0], as an index of pkgset
RemovedIndex ==
    CHOOSE k \in 1..Len(pkgset) :
        pkgset[k].status = "D" /\ \A j \in 1..(k - 1) : pkgset[j].status # "D"

\* self.repo.match(pkg.unversioned_atom)
MatchUnversioned == {v \in Versions : repo[v].exists}

\* self.repo.match(git_pkg.versioned_atom)
MatchVersioned(git_pkg) ==
    IF repo[git_pkg.version].exists THEN <<repo[git_pkg.version]>> ELSE <<>>

\* set(chain.from_iterable(pkg.keywords for pkg in self.repo.match(...)))
new_keywords == UNION {repo[v].keywords : v \in MatchUnversioned}

Finding(kind, rec, keywords, commit, year, line) ==
    [kind |-> kind, rec |-> rec, keywords |-> keywords, commit |-> commit,
     year |-> year, line |-> line]

DroppedStableKeywords(rec, keywords, commit) ==
    Finding("DroppedStableKeywords", rec, keywords, commit, <<>>, <<>>)

DroppedUnstableKeywords(rec, keywords, commit) ==
    Finding("DroppedUnstableKeywords", rec, keywords, commit, <<>>, <<>>)

OutdatedCopyright(rec, year, line) ==
    Finding("OutdatedCopyright", rec, <<>>, 0, year, line)

DirectStableKeywords(rec, keywords) ==
    Finding("DirectStableKeywords", rec, keywords, 0, <<>>, <<>>)

DirectNoMaintainer(rec) ==
    Finding("DirectNoMaintainer", rec, <<>>, 0, <<>>, <<>>)

\* a directory that is left as it is
TemporaryDirectoryLeak == repo_dir

\* leaving `with TemporaryDirectory() as repo_dir` (line 114), by any path
TemporaryDirectoryExit == "removed"

\* a returncode, or <<>> for None, is true in `if old_files.poll():`
Truthy(r) == r # <<>> /\ r[1] # 0

\* poll() gives None while the child, its stdout read to the end, has not
\* been reaped as exited, and its returncode afterwards
PollResults == {<<>>, <<archive.returncode>>}

\* lines 105-107: no removal in the pkgset
RemovalSkip ==
    /\ pc = "removal"
    /\ removed = <<>>
    /\ pc' = "loop"
    /\ UNCHANGED <<inputs, i, findings, repo_dir, old_repo, polled,
                   dropped_stable, dropped_unstable, exit_path>>

\* lines 109-123: the temporary repo is created and given its basic files
RemovalSetup ==
    /\ pc = "removal"
    /\ removed # <<>>
    /\ repo_dir' = "exists"
    /\ pc' = "extract"
    /\ UNCHANGED <<inputs, i, findings, old_repo, polled, dropped_stable,
                   dropped_unstable, exit_path>>

\* lines 125-129: the stream is unpacked into repo_dir
Extract ==
    /\ pc = "extract"
    /\ archive.stream \in {"complete", "cut_between_members"}
    /\ old_repo' = archive.keywords
    /\ pc' = "poll"
    /\ UNCHANGED <<inputs, i, findings, repo_dir, polled, dropped_stable,
                   dropped_unstable, exit_path>>

\* lines 128-129: tarfile raises ReadError; nothing in removal_checks or in
\* feed catches it, the with statement removes repo_dir on the way out
ExtractReadError ==
    /\ pc = "extract"
    /\ archive.stream \in {"empty", "cut_in_member"}
    /\ repo_dir' = TemporaryDirectoryExit
    /\ exit_path' = "ReadError"
    /\ pc' = "done"
    /\ UNCHANGED <<inputs, i, findings, old_repo, polled, dropped_stable,
                   dropped_unstable>>

\* lines 130-133: a returncode that is not 0 ends removal_checks
PollFailed ==
    /\ pc = "poll"
    /\ \E r \in PollResults :
        /\ Truthy(r)
        /\ polled' = r
    /\ repo_dir' = TemporaryDirectoryExit
    /\ pc' = "loop"
    /\ UNCHANGED <<inputs, i, findings, old_repo, dropped_stable,
                   dropped_unstable, exit_path>>

\* lines 130, 135-144: the old and the new keywords are diffed
Diff ==
    /\ pc = "poll"
    /\ \E r \in PollResults :
        /\ ~Truthy(r)
        /\ polled' = r
    /\ LET dropped == dropped_keywords(old_repo, new_keywords) IN
        /\ dropped_stable' = dropped_stable_keywords(dropped, valid_arches)
        /\ dropped_unstable' = dropped_unstable_keywords(dropped, valid_arches)
    /\ pc' = "stable"
    /\ UNCHANGED <<inputs, i, findings, repo_dir, old_repo, exit_path>>

\* lines 146-147
YieldDroppedStable ==
    /\ pc = "stable"
    /\ IF dropped_stable # {}
       THEN \E keywords \in sort_keywords(dropped_stable) :
                findings' = Append(findings,
                    DroppedStableKeywords(RemovedIndex, keywords,
                                          pkgset[RemovedIndex].commit))
       ELSE findings' = findings
    /\ pc' = "unstable"
    /\ UNCHANGED <<inputs, i, repo_dir, old_repo, polled, dropped_stable,
                   dropped_unstable, exit_path>>

\* lines 148-149
YieldDroppedUnstable ==
    /\ pc = "unstable"
    /\ IF dropped_unstable # {}
       THEN \E keywords \in sort_keywords(dropped_unstable) :
                findings' = Append(findings,
                    DroppedUnstableKeywords(RemovedIndex, keywords,
                                            pkgset[RemovedIndex].commit))
       ELSE findings' = findings
    /\ pc' = "end_with"
    /\ UNCHANGED <<inputs, i, repo_dir, old_repo, polled, dropped_stable,
                   dropped_unstable, exit_path>>

\* the end of the with statement of line 114, and of removal_checks
RemovalExit ==
    /\ pc = "end_with"
    /\ repo_dir' = TemporaryDirectoryExit
    /\ pc' = "loop"
    /\ UNCHANGED <<inputs, i, findings, old_repo, polled, dropped_stable,
                   dropped_unstable, exit_path>>

(***************************************************************************)
(* The loop of feed over the pkgset (lines 156-188).                       *)
(***************************************************************************)
\* how one turn of the loop leaves the generator
Return(reason) == [pc |-> "done", i |-> i, exit_path |-> reason]

Continue == [pc |-> "loop", i |-> i + 1, exit_path |-> exit_path]

\* `continue` in place of the `return` of line 161
ContinueOnIndexError == Continue

\* lines 159-161: `return` when no live ebuild matches the versioned atom
OnIndexError == Return("IndexError")

\* lines 166-168: `return` when the ebuild has no first line
OnStopIteration == Return("StopIteration")

\* lines 169-173
CopyrightFindings(rec, line) ==
    LET copyright == ebuild_copyright_regex(line) IN
    IF copyright # <<>> /\ Outdated(CopyrightYear(copyright), today)
    THEN <<OutdatedCopyright(rec, CopyrightYear(copyright), strip_newline(line))>>
    ELSE <<>>

\* lines 177-180
StableKeywordsFindings(rec, pkg) ==
    IF stable_keywords(pkg.keywords) # <<>>
    THEN <<DirectStableKeywords(rec, stable_keywords(pkg.keywords))>>
    ELSE <<>>

\* lines 183-188
NoMaintainerFindings(rec) ==
    IF newly_added(added_repo) /\ ~maintainers
    THEN <<DirectNoMaintainer(rec)>>
    ELSE <<>>

\* the maintainer check ahead of the stable keywords check
MaintainerFirstFindings(rec, git_pkg, pkg) ==
    IF git_pkg.status = "A"
    THEN NoMaintainerFindings(rec) \o StableKeywordsFindings(rec, pkg)
    ELSE <<>>

\* lines 176-188
AddedFindings(rec, git_pkg, pkg) ==
    IF git_pkg.status = "A"
    THEN StableKeywordsFindings(rec, pkg) \o NoMaintainerFindings(rec)
    ELSE <<>>

\* one turn of `for git_pkg in pkgset` (lines 156-188)
FeedRecord ==
    /\ pc = "loop"
    /\ i <= Len(pkgset)
    /\ LET git_pkg == pkgset[i]
           matches == MatchVersioned(git_pkg)
           after   == IF matches = <<>> THEN OnIndexError
                      ELSE IF matches[1].text = <<>> THEN OnStopIteration
                      ELSE Continue
       IN
        /\ findings' =
              IF matches # <<>> /\ matches[1].text # <<>>
              THEN findings \o CopyrightFindings(i, matches[1].text[1])
                            \o AddedFindings(i, git_pkg, matches[1])
              ELSE findings
        /\ pc' = after.pc
        /\ i' = after.i
        /\ exit_path' = after.exit_path
    /\ UNCHANGED <<inputs, repo_dir, old_repo, polled, dropped_stable,
                   dropped_unstable>>

\* the pkgset is exhausted: feed ends
FeedEnd ==
    /\ pc = "loop"
    /\ i > Len(pkgset)
    /\ pc' = "done"
    /\ exit_path' = "exhausted"
    /\ UNCHANGED <<inputs, i, findings, repo_dir, old_repo, polled,
                   dropped_stable, dropped_unstable>>

Next ==
    \/ RemovalSkip
    \/ RemovalSetup
    \/ Extract
    \/ ExtractReadError
    \/ PollFailed
    \/ Diff
    \/ YieldDroppedStable
    \/ YieldDroppedUnstable
    \/ RemovalExit
    \/ FeedRecord
    \/ FeedEnd

(***************************************************************************)
(* Keywords, first lines and the specifications.                           *)
(***************************************************************************)
KwA == <<"a">>
KwX == <<"x">>
KwUnstableA == <<"~", "a">>
KwMaskedA == <<"-", "a">>

Y2020 == <<"2", "0", "2", "0">>
Y2023 == <<"2", "0", "2", "3">>
Y2024 == <<"2", "0", "2", "4">>
Y2025 == <<"2", "0", "2", "5">>

Holder == <<" ", "F", "\n">>

Line(years, rest) == CopyrightPrefix \o years \o rest

LineCurrent == Line(Y2024, Holder)
LineStale == Line(Y2023, Holder)
LineRange == Line(Y2020 \o <<"-">> \o Y2024, Holder)

CopyrightLines ==
    {LineCurrent, LineStale, LineRange,
     Line(Y2025, Holder),
     Line(Y2020 \o <<"-">> \o Y2023, Holder),
     Line(Y2024 \o <<"-">> \o Y2020, <<" ", "F">>),
     Line(Y2023, <<" ", "\n">>),
     Line(Y2023, <<"\n">>),
     Line(<<"2", "0", "2">>, Holder),
     Line(Y2020 \o <<"-", "2", "3">>, Holder),
     <<"#", "\n">>,
     <<"\n">>}

\* the keyword diff over all old keywords, new keywords and arches
InitDiff ==
    InitWith({b \in Batches :
                 \A k \in 1..Len(b) : b[k].status \in {"D", "M"} /\ b[k].version = 1},
             {NoEbuild} \cup {Ebuild(TRUE, <<LineCurrent>>, k) :
                                 k \in SUBSET {KwA, KwUnstableA, KwMaskedA}},
             {TRUE}, {<<>>},
             {{}, {KwA}, {KwA, KwX}, {KwA, KwUnstableA}}, {2024},
             Archives(SUBSET {KwA, KwUnstableA, KwMaskedA}))

SpecDiff == InitDiff /\ [][Next]_vars

\* the copyright check over all first lines
InitCopyright ==
    InitWith({b \in Batches : \A k \in 1..Len(b) : b[k].status \in {"D", "M"}},
             {NoEbuild, Ebuild(TRUE, <<>>, {})}
                 \cup {Ebuild(TRUE, <<l>>, {}) : l \in CopyrightLines},
             {TRUE}, {<<>>}, {{KwA}}, {2024, 2021},
             Archives({{KwA, KwUnstableA}}))

SpecCopyright == InitCopyright /\ [][Next]_vars

\* the stable keywords check over all KEYWORDS
InitKeywords ==
    InitWith(Batches,
             Ebuilds({LineCurrent},
                     {{}, {KwA}, {KwUnstableA}, {KwMaskedA}, {KwA, KwX},
                      {KwA, KwUnstableA}, {KwUnstableA, KwMaskedA},
                      {KwA, KwX, KwUnstableA, KwMaskedA}}),
             {TRUE}, {<<>>}, {{KwA}}, {2024},
             Archives({{KwA, KwUnstableA}}))

SpecKeywords == InitKeywords /\ [][Next]_vars

\* the dates of the added repo's records of the package
AddedDates == {<<>>, <<1>>, <<1, 1>>, <<1, 2>>}

\* every pkgset, with or without maintainers, over all added records
Init ==
    InitWith(Batches,
             {NoEbuild, Ebuild(TRUE, <<>>, {}), Ebuild(TRUE, <<LineStale>>, {}),
              Ebuild(TRUE, <<LineCurrent>>, {KwA})},
             BOOLEAN, AddedDates, {{KwA}}, {2024},
             Archives({{KwA, KwUnstableA}}))

Spec == Init /\ [][Next]_vars

\* every kind of finding in one feed
InitOrder ==
    InitWith(Batches,
             {NoEbuild, Ebuild(TRUE, <<LineStale>>, {KwX}),
              Ebuild(TRUE, <<LineCurrent>>, {})},
             BOOLEAN, {<<>>, <<1, 2>>}, {{KwA, KwX}}, {2024},
             Archives({{KwA, KwUnstableA}}))

SpecOrder == InitOrder /\ [][Next]_vars

(***************************************************************************)
(* Properties.                                                             *)
(***************************************************************************)
FindingsOf(kind) == {k \in 1..Len(findings) : findings[k].kind = kind}

HasFinding(kind, rec) ==
    \E k \in FindingsOf(kind) : findings[k].rec = rec

\* the keyword diff has been computed
Diffed == pc \in {"stable", "unstable", "end_with"}

\* removal_checks has ended, by any path
RemovalOver == pc \in {"loop", "done"}

NoTildeArch == \A p \in valid_arches : p[1] # "~"

\* C1, as amended: the stable and the unstable dropped keywords are both
\* dropped keywords (old minus new), and no keyword is in both sets when no
\* arch of valid_arches begins with '~'.
C1_DiffDisjointForPlainArches ==
    Diffed =>
        /\ (dropped_stable \cup dropped_unstable) \subseteq (old_repo \ new_keywords)
        /\ NoTildeArch => dropped_stable \cap dropped_unstable = {}

\* C1, as claimed: for any valid_arches whatever, the two sets are disjoint
\* and within old minus new.
C1_DiffDisjointForAnyArches ==
    Diffed =>
        /\ (dropped_stable \cup dropped_unstable) \subseteq (old_repo \ new_keywords)
        /\ dropped_stable \cap dropped_unstable = {}

C1_Witness ==
    /\ pc = "stable"
    /\ NoTildeArch
    /\ dropped_stable # {}
    /\ dropped_unstable # {}
    /\ old_repo \cap new_keywords # {}

\* the parent commit was archived and unpacked whole, and git exited with 0
SnapshotExtracted ==
    /\ removed # <<>>
    /\ archive.stream = "complete"
    /\ archive.returncode = 0

\* Exactly one finding of the kind, with exactly the keywords of S once each
\* and the given commit, when S is not empty; no finding of the kind when it is.
OneFindingIff(kind, S, commit) ==
    IF S = {}
    THEN FindingsOf(kind) = {}
    ELSE /\ Cardinality(FindingsOf(kind)) = 1
         /\ \A k \in FindingsOf(kind) :
                /\ Range(findings[k].keywords) = S
                /\ Len(findings[k].keywords) = Cardinality(S)
                /\ findings[k].commit = commit

\* C2: after a successful extraction, removal_checks has yielded exactly one
\* DroppedStableKeywords iff (old - new) & valid_arches is not empty and
\* exactly one DroppedUnstableKeywords iff some dropped keyword is '~' + p
\* for a valid arch p; each carries exactly that set and the commit of the
\* first Deleted record of the pkgset.
C2_DroppedFindings ==
    (RemovalOver /\ SnapshotExtracted) =>
        LET first   == CHOOSE k \in 1..Len(pkgset) :
                           /\ pkgset[k].status = "D"
                           /\ \A j \in 1..Len(pkgset) : pkgset[j].status = "D" => k <= j
            dropped == archive.keywords \ new_keywords
        IN
        /\ OneFindingIff("DroppedStableKeywords",
                         {m \in dropped : m \in valid_arches},
                         pkgset[first].commit)
        /\ OneFindingIff("DroppedUnstableKeywords",
                         {m \in dropped : \E p \in valid_arches : m = <<"~">> \o p},
                         pkgset[first].commit)

C2_Witness ==
    /\ pc = "done"
    /\ SnapshotExtracted
    /\ Len(removed) = 2
    /\ FindingsOf("DroppedStableKeywords") # {}
    /\ FindingsOf("DroppedUnstableKeywords") # {}
    /\ new_keywords # {}

\* C3: when git archive exits with a status that is not 0, the feed yields
\* no DroppedStableKeywords and no DroppedUnstableKeywords and no exception
\* leaves it.
C3_FailedArchiveIsSkipped ==
    (removed # <<>> /\ archive.returncode # 0) =>
        /\ exit_path # "ReadError"
        /\ FindingsOf("DroppedStableKeywords") = {}
        /\ FindingsOf("DroppedUnstableKeywords") = {}

\* C4: the temporary repo exists only inside removal_checks: once
\* removal_checks is over (its findings exhausted, the return on a failed
\* archive, or ReadError raised by the extraction) repo_dir is gone.
C4_TemporaryRepoRemoved ==
    /\ RemovalOver => repo_dir # "exists"
    /\ (RemovalOver /\ removed # <<>>) => repo_dir = "removed"

C4_Witness ==
    /\ pc = "done"
    /\ exit_path = "ReadError"
    /\ archive.stream = "cut_in_member"
    /\ repo_dir = "removed"

\* the live ebuild of the k-th record of the pkgset
EbuildOf(k) == repo[pkgset[k].version]

\* the loop of feed looked the k-th record up and found its ebuild
Resolved(k) == k < i \/ (k = i /\ exit_path = "StopIteration")

FindingsFor(kind, rec) == {k \in FindingsOf(kind) : findings[k].rec = rec}

\* the last year of a matching line, read off the line itself
LastYear(line) ==
    IF line[17] = "-" THEN SubSeq(line, 18, 21) ELSE SubSeq(line, 13, 16)

YearNumber(y) ==
    1000 * DigitValue(y[1]) + 100 * DigitValue(y[2])
        + 10 * DigitValue(y[3]) + DigitValue(y[4])

\* C5: for every record whose ebuild the loop found and whose first line
\* matches the copyright expression, one OutdatedCopyright is yielded iff
\* the last year of the line is less than the current year, and it carries
\* that year; a first line that does not match yields none.
C5_OutdatedCopyright ==
    \A k \in 1..Len(pkgset) :
        (Resolved(k) /\ EbuildOf(k).text # <<>>) =>
            LET line == EbuildOf(k).text[1] IN
            IF ebuild_copyright_regex(line) # <<>>
            THEN IF YearNumber(LastYear(line)) < today
                 THEN /\ Cardinality(FindingsFor("OutdatedCopyright", k)) = 1
                      /\ \A f \in FindingsFor("OutdatedCopyright", k) :
                            findings[f].year = LastYear(line)
                 ELSE FindingsFor("OutdatedCopyright", k) = {}
            ELSE FindingsFor("OutdatedCopyright", k) = {}

\* '# Copyright 2020-2024 F' checked in 2024 yields nothing, and
\* '# Copyright 2023 F' yields the year 2023
C5_Witness ==
    /\ pc = "done"
    /\ today = 2024
    /\ Len(pkgset) = 2
    /\ i = 3
    /\ pkgset[1].version # pkgset[2].version
    /\ EbuildOf(1).text = <<LineRange>>
    /\ EbuildOf(2).text = <<LineStale>>
    /\ FindingsFor("OutdatedCopyright", 1) = {}
    /\ \E f \in FindingsFor("OutdatedCopyright", 2) : findings[f].year = Y2023

\* C6: a DirectStableKeywords is yielded for a record iff its status is
\* Added and its ebuild has a keyword with neither '~' nor '-' in front; it
\* carries exactly those keywords, sorted; a Modified record never has one.
C6_DirectStableKeywords ==
    /\ \A k \in 1..Len(pkgset) :
        Resolved(k) =>
            LET stable == {m \in EbuildOf(k).keywords : m[1] # "~" /\ m[1] # "-"} IN
            IF pkgset[k].status = "A" /\ stable # {}
            THEN /\ Cardinality(FindingsFor("DirectStableKeywords", k)) = 1
                 /\ \A f \in FindingsFor("DirectStableKeywords", k) :
                        LET keywords == findings[f].keywords IN
                        /\ Range(keywords) = stable
                        /\ \A a, b \in 1..Len(keywords) :
                                a < b => StrLess(keywords[a], keywords[b])
            ELSE FindingsFor("DirectStableKeywords", k) = {}
    /\ \A f \in FindingsOf("DirectStableKeywords") : pkgset[findings[f].rec].status = "A"

C6_Witness ==
    /\ pc = "done"
    /\ Len(pkgset) = 2
    /\ i = 3
    /\ pkgset[1].status = "M"
    /\ pkgset[2].status = "A"
    /\ EbuildOf(1).keywords = {KwA, KwUnstableA}
    /\ EbuildOf(2).keywords = {KwA, KwX, KwUnstableA, KwMaskedA}
    /\ FindingsFor("DirectStableKeywords", 1) = {}
    /\ \E f \in FindingsFor("DirectStableKeywords", 2) : findings[f].keywords = <<KwA, KwX>>

\* C7: for an Added record whose ebuild the loop found, DirectNoMaintainer
\* is yielded iff every record of the added repo has the date of the first
\* one and the package has no maintainers.
C7_DirectNoMaintainer ==
    \A k \in 1..Len(pkgset) :
        (Resolved(k) /\ pkgset[k].status = "A") =>
            (HasFinding("DirectNoMaintainer", k)
                <=> ((\A d \in Range(added_repo) : d = added_repo[1]) /\ ~maintainers))

\* C8: a pkgset yields at most one DirectNoMaintainer.
C8_OneDirectNoMaintainer ==
    Cardinality(FindingsOf("DirectNoMaintainer")) <= 1

PerCommitKinds == {"OutdatedCopyright", "DirectStableKeywords", "DirectNoMaintainer"}

\* C9: no finding of the loop belongs to a record whose ebuild is not found
\* or to a record after it, and what has been yielded stays yielded.
C9_LookupFailureEndsBatch ==
    /\ [](\A f \in 1..Len(findings) :
            findings[f].kind \in PerCommitKinds =>
                \A j \in 1..findings[f].rec : MatchVersioned(pkgset[j]) # <<>>)
    /\ [][SubSeq(findings', 1, Len(findings)) = findings]_vars

C9_Witness ==
    /\ pc = "done"
    /\ exit_path = "IndexError"
    /\ Len(pkgset) >= 3
    /\ i = 2
    /\ HasFinding("OutdatedCopyright", 1)
    /\ FindingsOf("DroppedStableKeywords") # {}
    /\ EbuildOf(3).text = <<LineStale>>
    /\ pkgset[3].status = "A"

\* C10: an ebuild with no text skips the copyright check only: at the end
\* of a feed in which every lookup succeeded, every record has gone through
\* the loop, and an Added record of a new package without maintainers has
\* its DirectNoMaintainer.
C10_EmptyTextSkipsCopyrightOnly ==
    (pc = "done" /\ exit_path # "ReadError") =>
        \A k \in 1..Len(pkgset) :
            (\A j \in 1..k : MatchVersioned(pkgset[j]) # <<>>) =>
                /\ k < i
                /\ (pkgset[k].status = "A" /\ newly_added(added_repo) /\ ~maintainers)
                        => HasFinding("DirectNoMaintainer", k)

\* C11: a Deleted record does not keep the records after it from being
\* checked: at the end of a feed every Added or Modified record has gone
\* through the loop, unless an Added or Modified record up to it has no
\* live ebuild or no text.
C11_DeletedRecordsSkipped ==
    (pc = "done" /\ exit_path # "ReadError") =>
        \A k \in 1..Len(pkgset) :
            (/\ pkgset[k].status # "D"
             /\ \A j \in 1..k :
                    pkgset[j].status # "D" =>
                        (MatchVersioned(pkgset[j]) # <<>> /\ EbuildOf(j).text # <<>>))
                => k < i

\* the findings of the loop, as yielded so far
PerCommitFindings == SelectSeq(findings, LAMBDA f : f.kind \in PerCommitKinds)

\* what the loop yields from the k-th record on when nothing but its own
\* returns ends it: the findings of a feed whose snapshot was extracted
RECURSIVE LoopFindings(_)
LoopFindings(k) ==
    IF k > Len(pkgset) \/ MatchVersioned(pkgset[k]) = <<>> \/ EbuildOf(k).text = <<>>
    THEN <<>>
    ELSE CopyrightFindings(k, EbuildOf(k).text[1])
            \o AddedFindings(k, pkgset[k], EbuildOf(k))
            \o LoopFindings(k + 1)

\* C12: when git archive exits with a status that is not 0, the feed still
\* runs its loop: it ends with the OutdatedCopyright, DirectStableKeywords
\* and DirectNoMaintainer findings of a feed whose snapshot was extracted.
C12_FailedArchiveKeepsLoop ==
    (pc = "done" /\ removed # <<>> /\ archive.returncode # 0) =>
        PerCommitFindings = LoopFindings(1)

KindRank(kind) ==
    CASE kind = "DroppedStableKeywords"   -> 1
      [] kind = "DroppedUnstableKeywords" -> 2
      [] kind = "OutdatedCopyright"       -> 3
      [] kind = "DirectStableKeywords"    -> 4
      [] kind = "DirectNoMaintainer"      -> 5

IsRemovalFinding(f) == f.kind \in {"DroppedStableKeywords", "DroppedUnstableKeywords"}

\* f is yielded before g in the order of a feed
Precedes(f, g) ==
    IF IsRemovalFinding(f) /\ IsRemovalFinding(g) THEN KindRank(f.kind) < KindRank(g.kind)
    ELSE IF IsRemovalFinding(f) THEN TRUE
    ELSE IF IsRemovalFinding(g) THEN FALSE
    ELSE \/ f.rec < g.rec
         \/ f.rec = g.rec /\ KindRank(f.kind) < KindRank(g.kind)

\* C13: the findings of a feed come in a fixed order: DroppedStableKeywords,
\* DroppedUnstableKeywords, then the findings of the loop in the order of the
\* records and, for one record, OutdatedCopyright, DirectStableKeywords,
\* DirectNoMaintainer.
C13_FindingsOrder ==
    \A a, b \in 1..Len(findings) : a < b => Precedes(findings[a], findings[b])

C13_Witness ==
    /\ pc = "done"
    /\ Len(pkgset) = 3
    /\ i = 4
    /\ Len(findings) = 8
    /\ \A kind \in PerCommitKinds : HasFinding(kind, 1) /\ HasFinding(kind, 2)
    /\ findings[1].kind = "DroppedStableKeywords"
    /\ findings[2].kind = "DroppedUnstableKeywords"

\* C14: the snapshot is diffed only when git archive has exited with
\* status 0: a run whose exit status is not 0 never reaches the diff,
\* whenever poll() is called.
C14_DiffOnlyAfterExitZero ==
    Diffed => archive.returncode = 0

NoDeletedRecord == \A k \in 1..Len(pkgset) : pkgset[k].status # "D"

\* C15: with no Deleted record in the pkgset nothing of removal_checks
\* happens: no temporary repo, no git archive, no poll, no keywords read
\* from either repo, no diff and no Dropped* finding.
C15_NoRemovalWithoutDeleted ==
    NoDeletedRecord =>
        /\ pc \in {"removal", "loop", "done"}
        /\ repo_dir = "none"
        /\ polled = <<>>
        /\ old_repo = {}
        /\ dropped_stable = {}
        /\ dropped_unstable = {}
        /\ exit_path # "ReadError"
        /\ FindingsOf("DroppedStableKeywords") = {}
        /\ FindingsOf("DroppedUnstableKeywords") = {}

\* a feed without a Deleted record that ends with findings of the loop,
\* where the archive of the parent commit would have shown dropped keywords
C15_Witness ==
    /\ pc = "done"
    /\ NoDeletedRecord
    /\ Len(pkgset) = 2
    /\ i = 3
    /\ archive.stream = "complete"
    /\ dropped_keywords(archive.keywords, new_keywords) \cap valid_arches # {}
    /\ PerCommitFindings # <<>>
    /\ repo_dir = "none"

====
